---------------------------- MODULE Spec2Model ----------------------------
(***************************************************************************)
(* A model of the T-SQL diagram generator (src/src/main.rs): the pipeline  *)
(* driver `main`, the catalog readers get_tables / get_columns /           *)
(* get_references and the renderer generate_plantuml.                      *)
(*                                                                         *)
(* Text (Rust String, file content) is a sequence of one-character         *)
(* strings, so that format! and push_str are concatenations and a partial  *)
(* write is a proper prefix.  The database is the variable `catalog`; it   *)
(* answers the three queries of the source the way the SQL text of the     *)
(* source selects rows.                                                    *)
(***************************************************************************)
EXTENDS Naturals, Sequences, FiniteSets, TLC

VARIABLES
    catalog,          \* the database content the queries are answered from
    file0,            \* schema.puml as it was before the run (history)
    file,             \* schema.puml now: NoFile or its content
    pc,               \* position of main
    rows,             \* get_tables: the rows the `for` loop has still to visit
    tables,           \* get_tables: the Vec<Table> built so far
    queries,          \* every query issued so far, with its outcome (history)
    schema,           \* main: the DatabaseSchema, NoSchema before line 179
    plantuml_script,  \* main: the rendered text, NoScript before line 182
    stdout,           \* lines printed to standard output
    error             \* the Err main returned, NoError while there is none

vars == <<catalog, file0, file, pc, rows, tables, queries, schema,
          plantuml_script, stdout, error>>

-----------------------------------------------------------------------------
(* Bounds of the model: the databases a run may meet hold at most          *)
(* MaxTables base tables of at most MaxCols columns each and at most       *)
(* MaxRefs foreign-key rows.                                               *)

MaxTables == 2
MaxCols == 2
MaxRefs == 2

(* Identifiers the catalog may hold. *)
TableA == <<"A">>
TableB == <<"B", "c">>
ColX == <<"x">>
ColY == <<"y", "z">>
TypeInt == <<"i", "n", "t">>
TypeBit == <<"b", "i", "t">>

\* A base table is identified by (schema, name): A exists in two schemas.
TableIds ==
    { [schema |-> "dbo", name |-> TableA],
      [schema |-> "hr",  name |-> TableA],
      [schema |-> "dbo", name |-> TableB] }

ColumnRows ==
    { [COLUMN_NAME |-> ColX, DATA_TYPE |-> TypeInt],
      [COLUMN_NAME |-> ColY, DATA_TYPE |-> TypeBit] }

FkRows ==
    { [TABLE_NAME |-> TableA, COLUMN_NAME |-> ColX,
       REFERENCED_TABLE_NAME |-> TableB, REFERENCED_COLUMN_NAME |-> ColY],
      [TABLE_NAME |-> TableB, COLUMN_NAME |-> ColY,
       REFERENCED_TABLE_NAME |-> TableA, REFERENCED_COLUMN_NAME |-> ColX] }

\* What schema.puml may hold before the run.
OldContent == <<"o", "l", "d", "\n">>

\* A value that may be absent (a file, a local not yet assigned): <<>> while
\* absent, <<v>> once it is v.
Some(v) == <<v>>
NoFile == <<>>
NoSchema == <<>>
NoScript == <<>>
NoError == "NoError"

SeqsUpTo(S, n) == UNION { [1..k -> S] : k \in 0..n }

\* The entries of names are pairwise distinct.
DistinctNames(names) ==
    \A i, j \in 1..Len(names) : names[i] = names[j] => i = j

ColumnLists ==
    { cs \in SeqsUpTo(ColumnRows, MaxCols) :
        DistinctNames([i \in 1..Len(cs) |-> cs[i].COLUMN_NAME]) }

\* The base tables of a database: distinct (schema, name), each with columns
\* of distinct names (the engine enforces both).
CatalogTables ==
    { ts \in SeqsUpTo([schema : {"dbo", "hr"}, name : {TableA, TableB},
                       columns : ColumnLists], MaxTables) :
        /\ \A i \in 1..Len(ts) :
              [schema |-> ts[i].schema, name |-> ts[i].name] \in TableIds
        /\ DistinctNames([i \in 1..Len(ts) |->
                            <<ts[i].schema, ts[i].name>>]) }

HasColumn(ts, t, c) ==
    \E i \in 1..Len(ts) :
        /\ ts[i].name = t
        /\ \E j \in 1..Len(ts[i].columns) : ts[i].columns[j].COLUMN_NAME = c

\* A foreign key joins columns that exist.
ValidFk(ts, r) ==
    /\ HasColumn(ts, r.TABLE_NAME, r.COLUMN_NAME)
    /\ HasColumn(ts, r.REFERENCED_TABLE_NAME, r.REFERENCED_COLUMN_NAME)

Catalogs ==
    { [tables |-> ts, fks |-> fs] :
        ts \in CatalogTables, fs \in SeqsUpTo(FkRows, MaxRefs) }

-----------------------------------------------------------------------------
(* The database's answers. *)

\* SELECT TABLE_NAME FROM INFORMATION_SCHEMA.TABLES WHERE TABLE_TYPE = 'BASE TABLE'
ListTablesRows(cat) ==
    [i \in 1..Len(cat.tables) |-> [TABLE_NAME |-> cat.tables[i].name]]

RECURSIVE ColumnsOf(_, _, _)
ColumnsOf(ts, i, table_name) ==
    IF i > Len(ts) THEN <<>>
    ELSE (IF ts[i].name = table_name THEN ts[i].columns ELSE <<>>)
         \o ColumnsOf(ts, i + 1, table_name)

\* SELECT COLUMN_NAME, DATA_TYPE FROM INFORMATION_SCHEMA.COLUMNS
\* WHERE TABLE_NAME = '<table_name>': every schema's table of that name.
ListColumnsRows(cat, table_name) == ColumnsOf(cat.tables, 1, table_name)

\* The join over sys.foreign_keys: one row per foreign-key column.
ListForeignKeyRows(cat) == cat.fks

-----------------------------------------------------------------------------
(* Rows to the data model. *)

\* Fault: the two fields of a column row taken for each other.
ColumnOfRowSwapped(row) ==
    [name |-> row.DATA_TYPE, data_type |-> row.COLUMN_NAME]

ColumnOfRow(row) == [name |-> row.COLUMN_NAME, data_type |-> row.DATA_TYPE]

ColumnsOfRows(rs) == [i \in 1..Len(rs) |-> ColumnOfRow(rs[i])]

ReferenceOfRow(row) ==
    [table |-> row.TABLE_NAME,
     column |-> row.COLUMN_NAME,
     referenced_table |-> row.REFERENCED_TABLE_NAME,
     referenced_column |-> row.REFERENCED_COLUMN_NAME]

ReferencesOfRows(rs) == [i \in 1..Len(rs) |-> ReferenceOfRow(rs[i])]

-----------------------------------------------------------------------------
(* generate_plantuml: the literal pieces of its format strings. *)

StartMarker == <<"@", "s", "t", "a", "r", "t", "u", "m", "l", "\n">>
EndMarker == <<"@", "e", "n", "d", "u", "m", "l", "\n">>
ClassOpen == <<"c", "l", "a", "s", "s", " ">>
BraceOpen == <<" ", "{", "\n">>
BlockEnd == <<"}", "\n">>
Indent == <<" ", " ">>
Colon == <<" ", ":", " ">>
Scope == <<":", ":">>
Arrow == <<" ", "-", "-", ">", " ">>
Newline == <<"\n">>

\* format!("class {} {{\n", table.name)
ClassHeader(table) == ClassOpen \o table.name \o BraceOpen

\* format!("  {} : {}\n", column.name, column.data_type)
ColumnLine(column) ==
    Indent \o column.name \o Colon \o column.data_type \o Newline

\* Fault: the label names the referenced column instead of the source column.
ReferenceLineLabelsTarget(reference) ==
    reference.table \o Scope \o reference.column \o Arrow
    \o reference.referenced_table \o Scope \o reference.referenced_column
    \o Colon \o reference.referenced_column \o Newline

\* format!("{}::{} --> {}::{} : {}\n", ...)
ReferenceLine(reference) ==
    reference.table \o Scope \o reference.column \o Arrow
    \o reference.referenced_table \o Scope \o reference.referenced_column
    \o Colon \o reference.column \o Newline

\* Fault: the columns are walked from the last to the first.
RECURSIVE PushColumnsReversed(_, _, _)
PushColumnsReversed(plantuml, columns, i) ==
    IF i > Len(columns) THEN plantuml
    ELSE PushColumnsReversed(
             plantuml \o ColumnLine(columns[Len(columns) + 1 - i]),
             columns, i + 1)

\* for column in &table.columns { push_str(...) }, from the i-th column on
RECURSIVE PushColumns(_, _, _)
PushColumns(plantuml, columns, i) ==
    IF i > Len(columns) THEN plantuml
    ELSE PushColumns(plantuml \o ColumnLine(columns[i]), columns, i + 1)

\* the body of `for table in &schema.tables`
PushTable(plantuml, table) ==
    PushColumns(plantuml \o ClassHeader(table), table.columns, 1) \o BlockEnd

\* Fault: a table whose name was already rendered is left out.
RECURSIVE PushTablesDedup(_, _, _)
PushTablesDedup(plantuml, ts, i) ==
    IF i > Len(ts) THEN plantuml
    ELSE IF \E j \in 1..(i - 1) : ts[j].name = ts[i].name
         THEN PushTablesDedup(plantuml, ts, i + 1)
         ELSE PushTablesDedup(PushTable(plantuml, ts[i]), ts, i + 1)

RECURSIVE PushTables(_, _, _)
PushTables(plantuml, ts, i) ==
    IF i > Len(ts) THEN plantuml
    ELSE PushTables(PushTable(plantuml, ts[i]), ts, i + 1)

RECURSIVE PushReferences(_, _, _)
PushReferences(plantuml, references, i) ==
    IF i > Len(references) THEN plantuml
    ELSE PushReferences(plantuml \o ReferenceLine(references[i]),
                        references, i + 1)

generate_plantuml(s) ==
    PushReferences(PushTables(StartMarker, s.tables, 1), s.references, 1)
    \o EndMarker

Confirmation == "PlantUML script generated and saved to schema.puml"

-----------------------------------------------------------------------------
(* The run. *)

Init ==
    /\ catalog \in { c \in Catalogs :
                       \A k \in 1..Len(c.fks) : ValidFk(c.tables, c.fks[k]) }
    /\ file0 \in {NoFile, Some(OldContent)}
    /\ file = file0
    /\ pc = "connect"
    /\ rows = <<>>
    /\ tables = <<>>
    /\ queries = <<>>
    /\ schema = NoSchema
    /\ plantuml_script = NoScript
    /\ stdout = <<>>
    /\ error = NoError

\* One issued query: ok says whether the function that issued it returned
\* Ok, rows is what the database answered (<<>> when the query was refused).
Query(kind, table_name, ok, result) ==
    [kind |-> kind, table_name |-> table_name, ok |-> ok, rows |-> result]

\* Fault: an error is swallowed and the run starts over.
FailRetries(e) ==
    /\ pc' = "connect"
    /\ error' = NoError

\* `?` on an Err: main returns it; nothing else runs.
Fail(e) ==
    /\ pc' = "failed"
    /\ error' = e

\* Fault: the output file is created as soon as the connection stands.
ConnectOkCreatesFile ==
    /\ pc = "connect"
    /\ pc' = "list_tables"
    /\ file' = Some(<<>>)
    /\ UNCHANGED <<catalog, file0, rows, tables, queries, schema,
                   plantuml_script, stdout, error>>

\* MssqlPool::connect(&connection_string).await?
ConnectOk ==
    /\ pc = "connect"
    /\ pc' = "list_tables"
    /\ UNCHANGED <<catalog, file0, file, rows, tables, queries, schema,
                   plantuml_script, stdout, error>>

ConnectFail ==
    /\ pc = "connect"
    /\ Fail("connect")
    /\ UNCHANGED <<catalog, file0, file, rows, tables, queries, schema,
                   plantuml_script, stdout>>

\* get_tables: the table listing, fetch_all(pool).await?
ListTablesOk ==
    /\ pc = "list_tables"
    /\ LET result == ListTablesRows(catalog)
       IN  /\ queries' = Append(queries, Query("tables", <<>>, TRUE, result))
           /\ rows' = result
    /\ tables' = <<>>
    /\ pc' = "columns"
    /\ UNCHANGED <<catalog, file0, file, schema, plantuml_script, stdout,
                   error>>

ListTablesFail ==
    /\ pc = "list_tables"
    /\ queries' = Append(queries, Query("tables", <<>>, FALSE, <<>>))
    /\ Fail("list_tables")
    /\ UNCHANGED <<catalog, file0, file, rows, tables, schema,
                   plantuml_script, stdout>>

\* get_tables: row.try_get("TABLE_NAME")? fails for the next row
TableNameFail ==
    /\ pc = "columns"
    /\ rows # <<>>
    /\ Fail("table_name")
    /\ UNCHANGED <<catalog, file0, file, rows, tables, queries, schema,
                   plantuml_script, stdout>>

\* Fault: the foreign keys are fetched once per table, inside the loop.
GetColumnsOkWithReferences ==
    /\ pc = "columns"
    /\ rows # <<>>
    /\ LET table_name == Head(rows).TABLE_NAME
           result == ListColumnsRows(catalog, table_name)
       IN  /\ queries' = queries
                  \o << Query("columns", table_name, TRUE, result),
                        Query("references", <<>>, TRUE,
                              ListForeignKeyRows(catalog)) >>
           /\ tables' = Append(tables, [name |-> table_name,
                                        columns |-> ColumnsOfRows(result)])
    /\ rows' = Tail(rows)
    /\ UNCHANGED <<catalog, file0, file, pc, schema, plantuml_script, stdout,
                   error>>

\* get_tables: one turn of the loop, get_columns succeeds
GetColumnsOk ==
    /\ pc = "columns"
    /\ rows # <<>>
    /\ LET table_name == Head(rows).TABLE_NAME
           result == ListColumnsRows(catalog, table_name)
       IN  /\ queries' = Append(queries,
                                Query("columns", table_name, TRUE, result))
           /\ tables' = Append(tables, [name |-> table_name,
                                        columns |-> ColumnsOfRows(result)])
    /\ rows' = Tail(rows)
    /\ UNCHANGED <<catalog, file0, file, pc, schema, plantuml_script, stdout,
                   error>>

\* Fault: a table whose column fetch fails is skipped and the loop goes on.
GetColumnsFailSkips ==
    /\ pc = "columns"
    /\ rows # <<>>
    /\ queries' = Append(queries,
                         Query("columns", Head(rows).TABLE_NAME, FALSE, <<>>))
    /\ rows' = Tail(rows)
    /\ UNCHANGED <<catalog, file0, file, pc, tables, schema, plantuml_script,
                   stdout, error>>

\* get_columns: fetch_all(pool).await? fails
GetColumnsFail ==
    /\ pc = "columns"
    /\ rows # <<>>
    /\ queries' = Append(queries,
                         Query("columns", Head(rows).TABLE_NAME, FALSE, <<>>))
    /\ Fail("columns")
    /\ UNCHANGED <<catalog, file0, file, rows, tables, schema,
                   plantuml_script, stdout>>

\* get_columns: a row's try_get fails
ColumnRowFail ==
    /\ pc = "columns"
    /\ rows # <<>>
    /\ LET table_name == Head(rows).TABLE_NAME
           result == ListColumnsRows(catalog, table_name)
       IN  /\ result # <<>>
           /\ queries' = Append(queries,
                                Query("columns", table_name, FALSE, result))
    /\ Fail("column_row")
    /\ UNCHANGED <<catalog, file0, file, rows, tables, schema,
                   plantuml_script, stdout>>

\* get_tables: the loop is over, Ok(tables)
GetTablesReturn ==
    /\ pc = "columns"
    /\ rows = <<>>
    /\ pc' = "references"
    /\ UNCHANGED <<catalog, file0, file, rows, tables, queries, schema,
                   plantuml_script, stdout, error>>

\* get_references succeeds; DatabaseSchema { tables, references }
GetReferencesOk ==
    /\ pc = "references"
    /\ LET result == ListForeignKeyRows(catalog)
       IN  /\ queries' = Append(queries,
                                Query("references", <<>>, TRUE, result))
           /\ schema' = Some([tables |-> tables,
                              references |-> ReferencesOfRows(result)])
    /\ pc' = "render"
    /\ UNCHANGED <<catalog, file0, file, rows, tables, plantuml_script,
                   stdout, error>>

GetReferencesFail ==
    /\ pc = "references"
    /\ queries' = Append(queries, Query("references", <<>>, FALSE, <<>>))
    /\ Fail("references")
    /\ UNCHANGED <<catalog, file0, file, rows, tables, schema,
                   plantuml_script, stdout>>

\* get_references: a row's try_get fails
ReferenceRowFail ==
    /\ pc = "references"
    /\ LET result == ListForeignKeyRows(catalog)
       IN  /\ result # <<>>
           /\ queries' = Append(queries,
                                Query("references", <<>>, FALSE, result))
    /\ Fail("reference_row")
    /\ UNCHANGED <<catalog, file0, file, rows, tables, schema,
                   plantuml_script, stdout>>

\* let plantuml_script = generate_plantuml(&schema);
Render ==
    /\ pc = "render"
    /\ plantuml_script' = Some(generate_plantuml(schema[1]))
    /\ pc' = "create"
    /\ UNCHANGED <<catalog, file0, file, rows, tables, queries, schema,
                   stdout, error>>

\* File::create("schema.puml")?: creates the file or truncates it
CreateOk ==
    /\ pc = "create"
    /\ file' = Some(<<>>)
    /\ pc' = "write"
    /\ UNCHANGED <<catalog, file0, rows, tables, queries, schema,
                   plantuml_script, stdout, error>>

CreateFail ==
    /\ pc = "create"
    /\ Fail("create")
    /\ UNCHANGED <<catalog, file0, file, rows, tables, queries, schema,
                   plantuml_script, stdout>>

\* Fault: a single write, which may be short, in place of write_all.
WriteOnce ==
    /\ pc = "write"
    /\ \E n \in 1..Len(plantuml_script[1]) :
          file' = Some(SubSeq(plantuml_script[1], 1, n))
    /\ pc' = "print"
    /\ UNCHANGED <<catalog, file0, rows, tables, queries, schema,
                   plantuml_script, stdout, error>>

\* file.write_all(plantuml_script.as_bytes())?
WriteAllOk ==
    /\ pc = "write"
    /\ file' = plantuml_script
    /\ pc' = "print"
    /\ UNCHANGED <<catalog, file0, rows, tables, queries, schema,
                   plantuml_script, stdout, error>>

\* write_all fails after any number of bytes short of all
WriteAllFail ==
    /\ pc = "write"
    /\ \E n \in 0..(Len(plantuml_script[1]) - 1) :
          file' = Some(SubSeq(plantuml_script[1], 1, n))
    /\ Fail("write")
    /\ UNCHANGED <<catalog, file0, rows, tables, queries, schema,
                   plantuml_script, stdout>>

\* println!(...); Ok(())
PrintConfirmation ==
    /\ pc = "print"
    /\ stdout' = Append(stdout, Confirmation)
    /\ pc' = "done"
    /\ UNCHANGED <<catalog, file0, file, rows, tables, queries, schema,
                   plantuml_script, error>>

\* println! panics when standard output cannot be written: nothing is
\* printed and the process ends with an error.
PrintFail ==
    /\ pc = "print"
    /\ Fail("print")
    /\ UNCHANGED <<catalog, file0, file, rows, tables, queries, schema,
                   plantuml_script, stdout>>

Next ==
    \/ ConnectOk
    \/ ConnectFail
    \/ ListTablesOk
    \/ ListTablesFail
    \/ TableNameFail
    \/ GetColumnsOk
    \/ GetColumnsFail
    \/ ColumnRowFail
    \/ GetTablesReturn
    \/ GetReferencesOk
    \/ GetReferencesFail
    \/ ReferenceRowFail
    \/ Render
    \/ CreateOk
    \/ CreateFail
    \/ WriteAllOk
    \/ WriteAllFail
    \/ PrintConfirmation
    \/ PrintFail

Spec == Init /\ [][Next]_vars

-----------------------------------------------------------------------------
(* The pipeline driver's states (spec 4.4) as positions of main. *)

Stage(p) ==
    CASE p = "connect" -> "Connecting"
      [] p \in {"list_tables", "columns"} -> "ExtractingTables"
      [] p = "references" -> "ExtractingReferences"
      [] p = "render" -> "Rendering"
      [] p \in {"create", "write", "print"} -> "WritingOutput"
      [] p = "done" -> "Done"
      [] p = "failed" -> "Failed"

StageOrder ==
    <<"Connecting", "ExtractingTables", "ExtractingReferences", "Rendering",
      "WritingOutput", "Done">>

StageRank(st) == CHOOSE i \in 1..Len(StageOrder) : StageOrder[i] = st

\* The names the table listing of this run returned, in order.
Listing == [i \in 1..Len(queries[1].rows) |-> queries[1].rows[i].TABLE_NAME]

ExtractionErrors ==
    {"connect", "list_tables", "table_name", "columns", "column_row",
     "references", "reference_row"}

-----------------------------------------------------------------------------
(* C1: every step of a run stays in its stage or moves to the next stage  *)
(* of Connecting -> ExtractingTables -> ExtractingReferences -> Rendering *)
(* -> WritingOutput -> Done, or, on an error, to Failed; a step inside a  *)
(* stage advances main (no retry); an error is raised exactly by the step *)
(* that enters Failed; and no step leaves Done or Failed.                 *)
C1_StageStep ==
    /\ pc \notin {"done", "failed"}
    /\ error = NoError
    /\ \/ /\ pc' = "failed"
          /\ error' # NoError
       \/ /\ pc' # "failed"
          /\ error' = NoError
          /\ \/ /\ Stage(pc') = Stage(pc)
                /\ \/ pc' # pc
                   \/ pc = "columns" /\ Len(rows') < Len(rows)
             \/ StageRank(Stage(pc')) = StageRank(Stage(pc)) + 1

C1_StagesInOrder == [][C1_StageStep]_vars

C1_Witness ==
    /\ pc = "done"
    /\ Len(queries) = 4
    /\ stdout # <<>>

(* C2: a run that failed before the output stage (connecting, listing     *)
(* tables, fetching columns, fetching foreign keys; rendering cannot      *)
(* fail), and a run that has not yet reached the output stage, has left   *)
(* schema.puml as it was: absent if it was absent, with its previous      *)
(* content otherwise.                                                     *)
C2_NoFileOnEarlyFailure ==
    /\ error \in ExtractionErrors => file = file0
    /\ Stage(pc) \in {"Connecting", "ExtractingTables",
                      "ExtractingReferences", "Rendering"} => file = file0

C2_Witness ==
    /\ pc = "failed"
    /\ error = "references"
    /\ Len(tables) = 2
    /\ file0 = Some(OldContent)
    /\ file = Some(OldContent)

(* C3: a failed column fetch is the last query of the run: it is the      *)
(* fetch for the k-th listed table after k-1 successful ones, the run has *)
(* failed with that error, no foreign-key query was issued, no schema was *)
(* built or rendered, and schema.puml is untouched.                       *)
C3_ColumnFailureAborts ==
    \A i \in 1..Len(queries) :
        (queries[i].kind = "columns" /\ ~queries[i].ok) =>
            /\ i = Len(queries)
            /\ i - 1 <= Len(Listing)
            /\ queries[i].table_name = Listing[i - 1]
            /\ \A j \in 1..(i - 1) : queries[j].ok
            /\ \A j \in 2..(i - 1) : queries[j].kind = "columns"
            /\ pc = "failed"
            /\ error \in {"columns", "column_row"}
            /\ schema = NoSchema
            /\ plantuml_script = NoScript
            /\ file = file0
            /\ stdout = <<>>

C3_Witness ==
    /\ error = "columns"
    /\ Len(Listing) = 2
    /\ Len(queries) = 3
    /\ Len(tables) = 1
    /\ file0 = NoFile
    /\ file = NoFile

(* C4: the confirmation line is printed only by a run without error whose *)
(* queries all succeeded, whose schema holds every listed table and whose *)
(* file holds exactly the rendering of that schema; a run that ended in   *)
(* Done has printed it once, and a run with an error never has.           *)
C4_AllOrNothing ==
    /\ stdout # <<>> =>
          /\ stdout = <<Confirmation>>
          /\ pc = "done"
          /\ error = NoError
          /\ Len(queries) = Len(Listing) + 2
          /\ \A i \in 1..Len(queries) : queries[i].ok
          /\ schema # NoSchema
          /\ Len(schema[1].tables) = Len(Listing)
          /\ Len(schema[1].references) = Len(queries[Len(queries)].rows)
          /\ file = Some(generate_plantuml(schema[1]))
    /\ pc = "done" => stdout = <<Confirmation>>
    /\ pc = "failed" <=> error # NoError
    /\ error # NoError => stdout = <<>>

C4_Witness ==
    /\ pc = "done"
    /\ file0 = Some(OldContent)
    /\ Len(schema[1].tables) = 2
    /\ Len(schema[1].references) = 1
    /\ file # Some(OldContent)

(* C5 (as claimed): in every table assembled, the column names are        *)
(* pairwise distinct.                                                     *)
C5_ColumnNamesUnique ==
    \A i \in 1..Len(tables) :
        DistinctNames([j \in 1..Len(tables[i].columns) |->
                         tables[i].columns[j].name])

(* C6: the tables assembled so far are, in order, the listed names with   *)
(* the rows their column query returned, field by field; and the schema,  *)
(* once built, holds one such table per listed name and one reference per *)
(* foreign-key row, in order, field by field.                             *)
C6_ImageOfRows(table, name, result) ==
    /\ table.name = name
    /\ Len(table.columns) = Len(result)
    /\ \A j \in 1..Len(result) :
          /\ table.columns[j].name = result[j].COLUMN_NAME
          /\ table.columns[j].data_type = result[j].DATA_TYPE

C6_SchemaFaithful ==
    /\ tables # <<>> =>
          LET listed == Listing
          IN  \A i \in 1..Len(tables) :
                  /\ i <= Len(listed)
                  /\ queries[i + 1].kind = "columns"
                  /\ queries[i + 1].table_name = listed[i]
                  /\ C6_ImageOfRows(tables[i], listed[i], queries[i + 1].rows)
    /\ schema # NoSchema =>
          LET fk == queries[Len(queries[1].rows) + 2]
              refs == schema[1].references
          IN  /\ schema[1].tables = tables
              /\ Len(tables) = Len(queries[1].rows)
              /\ fk.kind = "references"
              /\ Len(refs) = Len(fk.rows)
              /\ \A k \in 1..Len(fk.rows) :
                    /\ refs[k].table = fk.rows[k].TABLE_NAME
                    /\ refs[k].column = fk.rows[k].COLUMN_NAME
                    /\ refs[k].referenced_table =
                          fk.rows[k].REFERENCED_TABLE_NAME
                    /\ refs[k].referenced_column =
                          fk.rows[k].REFERENCED_COLUMN_NAME

C6_Witness ==
    /\ schema # NoSchema
    /\ Len(schema[1].tables) = 2
    /\ schema[1].tables[1].name # schema[1].tables[2].name
    /\ Len(schema[1].tables[1].columns) = 2
    /\ Len(schema[1].references) = 2
    /\ schema[1].references[1] # schema[1].references[2]

(* C10: the queries issued are a prefix of: the table listing, one column *)
(* query per listed name in listed order, one foreign-key query; each is  *)
(* issued only after the one before it succeeded, and a run that ended in *)
(* Done issued all n+2 of them.                                           *)
C10_QueryOrder ==
    queries # <<>> =>
        LET listed == Listing
            n == Len(queries[1].rows)
        IN  /\ queries[1].kind = "tables"
            /\ Len(queries) <= n + 2
            /\ \A i \in 2..Len(queries) :
                  /\ queries[i - 1].ok
                  /\ i <= n + 1 =>
                        /\ queries[i].kind = "columns"
                        /\ queries[i].table_name = listed[i - 1]
                  /\ i = n + 2 => queries[i].kind = "references"
            /\ pc = "done" =>
                  /\ Len(queries) = n + 2
                  /\ queries[Len(queries)].ok

C10_Witness ==
    /\ pc = "done"
    /\ Len(Listing) = 2
    /\ Len(queries) = 4
    /\ queries[2].table_name # queries[3].table_name

-----------------------------------------------------------------------------
(* The renderer's output as spec 4.3 and 8 describe it, written out       *)
(* independently of generate_plantuml.  plantuml_script and schema are    *)
(* assigned once, so the state right after Render (pc = "create") decides *)
(* what was rendered.                                                     *)

RECURSIVE Flatten(_)
Flatten(lines) ==
    IF lines = <<>> THEN <<>> ELSE Head(lines) \o Flatten(Tail(lines))

\* text[from..to], or a text no rendering contains when that is out of range
Slice(text, from, to) ==
    IF from >= 1 /\ to <= Len(text) /\ from <= to + 1
    THEN SubSeq(text, from, to)
    ELSE <<"out of range">>

\* `name : dataType`, indented by two blanks as in the end-to-end scenarios
ExpectedBodyLine(column) ==
    <<" ", " ">> \o column.name \o <<" ", ":", " ">> \o column.data_type
    \o <<"\n">>

\* header naming the table, one body line per column, terminator
ExpectedBlockLines(table) ==
    << <<"c", "l", "a", "s", "s", " ">> \o table.name \o <<" ", "{", "\n">> >>
    \o [j \in 1..Len(table.columns) |-> ExpectedBodyLine(table.columns[j])]
    \o << <<"}", "\n">> >>

ExpectedBlock(table) == Flatten(ExpectedBlockLines(table))

\* `table::column --> referencedTable::referencedColumn : column`
ExpectedRelationLine(r) ==
    r.table \o <<":", ":">> \o r.column \o <<" ", "-", "-", ">", " ">>
    \o r.referenced_table \o <<":", ":">> \o r.referenced_column
    \o <<" ", ":", " ">> \o r.column \o <<"\n">>

ExpectedStart == <<"@", "s", "t", "a", "r", "t", "u", "m", "l", "\n">>
ExpectedEnd == <<"@", "e", "n", "d", "u", "m", "l", "\n">>

\* Where the i-th class block starts when the blocks follow the start marker
\* without gaps; BlockStart(ts, Len(ts) + 1) is where they end.
RECURSIVE BlockStart(_, _)
BlockStart(ts, i) ==
    IF i = 1 THEN Len(ExpectedStart) + 1
    ELSE BlockStart(ts, i - 1) + Len(ExpectedBlock(ts[i - 1]))

\* Where the k-th relationship line starts when the lines end right before
\* the end marker of text out; RelationStart(.., Len(refs) + 1) is the end
\* marker's place.
RECURSIVE RelationStart(_, _, _)
RelationStart(out, refs, k) ==
    IF k = Len(refs) + 1 THEN Len(out) - Len(ExpectedEnd) + 1
    ELSE RelationStart(out, refs, k + 1) - Len(ExpectedRelationLine(refs[k]))

\* The i-th class block of a rendering out of tables ts.
BlockOf(out, ts, i) ==
    Slice(out, BlockStart(ts, i), BlockStart(ts, i + 1) - 1)

(* C7: the rendering starts with the start marker; then come, without    *)
(* gaps and in schema.tables order, one class block per table: the header *)
(* naming it, one `name : dataType` line per column in column order (none *)
(* for a table without columns), the terminator; the relationship lines   *)
(* start where the last block ends.                                       *)
C7_ClassBlocks ==
    pc = "create" =>
        LET out == plantuml_script[1]
            ts == schema[1].tables
            refs == schema[1].references
        IN  /\ Slice(out, 1, Len(ExpectedStart)) = ExpectedStart
            /\ \A i \in 1..Len(ts) :
                  /\ Len(ExpectedBlockLines(ts[i])) = Len(ts[i].columns) + 2
                  /\ BlockOf(out, ts, i) = ExpectedBlock(ts[i])
            /\ BlockStart(ts, Len(ts) + 1) = RelationStart(out, refs, 1)

C7_Witness ==
    /\ pc = "create"
    /\ Len(schema[1].tables) = 2
    /\ Len(schema[1].tables[1].columns) = 0
    /\ Len(schema[1].tables[2].columns) = 2

(* C8: the rendering ends with the end marker; right before it come,      *)
(* without gaps and in schema.references order, one relationship line per *)
(* reference, `table::column --> referenced_table::referenced_column :    *)
(* column`; the first of them starts where the class blocks end.          *)
C8_RelationshipLines ==
    pc = "create" =>
        LET out == plantuml_script[1]
            ts == schema[1].tables
            refs == schema[1].references
        IN  /\ Slice(out, Len(out) - Len(ExpectedEnd) + 1, Len(out))
                  = ExpectedEnd
            /\ \A k \in 1..Len(refs) :
                  Slice(out, RelationStart(out, refs, k),
                        RelationStart(out, refs, k + 1) - 1)
                      = ExpectedRelationLine(refs[k])
            /\ RelationStart(out, refs, 1) = BlockStart(ts, Len(ts) + 1)
            /\ Len(out) = Len(ExpectedStart)
                          + Len(Flatten([i \in 1..Len(ts) |->
                                           ExpectedBlock(ts[i])]))
                          + Len(Flatten([k \in 1..Len(refs) |->
                                           ExpectedRelationLine(refs[k])]))
                          + Len(ExpectedEnd)

C8_Witness ==
    /\ pc = "create"
    /\ Len(schema[1].tables) = 2
    /\ Len(schema[1].references) = 2
    /\ schema[1].references[1] = schema[1].references[2]

(* C9: rendering the schema with its tables permuted by p gives the same  *)
(* start marker, then the class blocks of the original rendering in the   *)
(* order p, then the original rendering's relationship lines and end      *)
(* marker.                                                                *)
C9_Permuted(s, p) ==
    [tables |-> [i \in 1..Len(s.tables) |-> s.tables[p[i]]],
     references |-> s.references]

C9_ReorderOnlyMovesBlocks ==
    pc = "create" =>
        LET s == schema[1]
            n == Len(s.tables)
            out1 == plantuml_script[1]
        IN  \A p \in Permutations(1..n) :
                generate_plantuml(C9_Permuted(s, p)) =
                    Slice(out1, 1, Len(ExpectedStart))
                    \o Flatten([i \in 1..n |-> BlockOf(out1, s.tables, p[i])])
                    \o Slice(out1, BlockStart(s.tables, n + 1), Len(out1))

C9_Witness ==
    /\ pc = "create"
    /\ Len(schema[1].tables) = 2
    /\ schema[1].tables[1] # schema[1].tables[2]
    /\ Len(schema[1].tables[1].columns) # Len(schema[1].tables[2].columns)
    /\ Len(schema[1].references) = 1

=============================================================================
